---- MODULE Spec2Model ----
(***************************************************************************)
(* Workflow execution engine (workflowService.executeWorkflowAction) and   *)
(* permission evaluator (permissionService) of the form builder.           *)
(*                                                                         *)
(* Spec      : executeWorkflowAction calls that do not overlap.            *)
(* SpecConc  : executeWorkflowAction calls that overlap at the load/save   *)
(*             boundary of the submission store.                           *)
(* SpecPerm  : checkPermission / checkFieldPermission against the stored   *)
(*             grants and the users' embedded permissions.                 *)
(* SpecGrant : grantPermission / revokePermission calls that do not        *)
(*             overlap.                                                    *)
(* SpecAdmin : grants and revocations followed by checks.                  *)
(* SpecOwner : executeWorkflowAction on submissions of any form and       *)
(*             application.                                                *)
(* SpecGrantConc : grantPermission calls that overlap, split between the   *)
(*             read of the user's grants and the write.                    *)
(***************************************************************************)
EXTENDS Integers, Sequences, FiniteSets, TLC

\* ------------------------------------------------------------------ bounds
\* number of history pushes (and so of timestamps read) in one behaviour
MaxCalls == 3

\* JavaScript undefined / null for a string-valued field
Null == "null"

\* ------------------------------------------------------ values of requests
\* user ids as the caller holds them (req.user.id || req.user._id)
UserIds == {1, 2}
\* userId.toString()
toString(userId) == CASE userId = 1 -> "1" [] userId = 2 -> "2" [] OTHER -> "3"

ReqActions == {"approve", "reject", "submit", "comment"}
\* comments of a request (a request without comments passes the default '')
Comments == {"ok"}
SubIds == {"sub1", "sub2"}

\* --------------------------------------------------- workflow definitions
Stage(id, role, users, actions) ==
  [id |-> id, role |-> role, users |-> users, actions |-> actions]
Transition(from, to, action, condition) ==
  [from |-> from, to |-> to, action |-> action, condition |-> condition]

\* the spec's example extended to a chain of three stages
WfChain ==
  [stages |-> << Stage("draft", Null, {}, {"submit", "approve", "reject", "comment"}),
                 Stage("review", "manager", {"1"}, {"approve", "reject"}),
                 Stage("final", "admin", {}, {"approve", "reject", "comment"}) >>,
   transitions |-> << Transition("draft", "review", "approve", Null),
                      Transition("review", "final", "approve", Null) >>]

\* two transitions with the same from and action
WfAmbiguous ==
  [stages |-> << Stage("draft", Null, {}, {"submit", "approve", "reject"}),
                 Stage("review", Null, {"2"}, {"approve", "reject"}),
                 Stage("final", Null, {}, {"approve"}) >>,
   transitions |-> << Transition("draft", "review", "approve", Null),
                      Transition("draft", "final", "approve", Null),
                      Transition("draft", "final", "reject", "amount>10"),
                      Transition("review", "draft", "reject", Null) >>]

\* a transition with unset action ahead of two with the same action
WfWildcard ==
  [stages |-> << Stage("draft", Null, {}, {"submit", "approve", "comment"}),
                 Stage("review", "manager", {}, {"approve", "reject"}),
                 Stage("final", Null, {"1", "2"}, {"approve", "reject"}) >>,
   transitions |-> << Transition("draft", "final", Null, "amount>10"),
                      Transition("draft", "review", "approve", Null),
                      Transition("draft", "draft", "approve", Null),
                      Transition("review", "draft", "reject", Null) >>]

\* a transition whose target is not a stage of the definition
WfDangling ==
  [stages |-> << Stage("draft", Null, {}, {"approve", "reject"}) >>,
   transitions |-> << Transition("draft", "archived", "approve", Null) >>]

\* a definition without stages (body('stages').isArray() accepts [])
WfEmpty == [stages |-> << >>, transitions |-> << >>]

Workflows == {WfChain, WfAmbiguous, WfWildcard, WfDangling, WfEmpty}

\* ------------------------------------------------------------------ state
VARIABLES
  workflow,     \* the definition handed to executeWorkflowAction
  submissions,  \* submission store: submissionId -> [status, workflowState]
  clock,        \* timestamps handed out by new Date()
  okCalls,      \* executeWorkflowAction calls that returned
  calls,        \* per request: position and what the request loaded
  last,         \* the call that finished last and its outcome
  users,        \* user repository: userId -> [role, permissions]
  grants,       \* permission store: the stored grants in their natural order
  lastCheck,    \* the permission check that finished last and its result
  lastGrant     \* the grantPermission / revokePermission call that finished last

vars == <<workflow, submissions, clock, okCalls, calls, last, users, grants, lastCheck, lastGrant>>

\* formSubmissionSchema.workflowState / FormSubmission.workflowState
NoWorkflowState == [present |-> FALSE, currentStage |-> Null, history |-> << >>]
EmptyWorkflowState == [present |-> TRUE, currentStage |-> Null, history |-> << >>]

Min(S) == CHOOSE x \in S : \A y \in S : x <= y

\* ------------------------------------------------- workflowService helpers
\* checkUserRole(userId, requiredRole)
checkUserRole(userId, requiredRole) == TRUE

\* checkWorkflowPermission with the users list consulted only when the stage
\* names no role
checkWorkflowPermission_RoleSuffices(stageConfig, userId, action) ==
  IF action \notin stageConfig.actions THEN FALSE
  ELSE IF stageConfig.role # Null THEN checkUserRole(userId, stageConfig.role)
  ELSE IF stageConfig.users # {} THEN toString(userId) \in stageConfig.users
  ELSE TRUE

\* checkWorkflowPermission without the test of stageConfig.actions
checkWorkflowPermission_AnyAction(stageConfig, userId, action) ==
  IF stageConfig.role # Null /\ ~checkUserRole(userId, stageConfig.role) THEN FALSE
  ELSE IF stageConfig.users # {} THEN toString(userId) \in stageConfig.users
  ELSE TRUE

\* checkWorkflowPermission refusing a stage without role and users
checkWorkflowPermission_DenyByDefault(stageConfig, userId, action) ==
  IF action \notin stageConfig.actions THEN FALSE
  ELSE IF stageConfig.role # Null /\ ~checkUserRole(userId, stageConfig.role) THEN FALSE
  ELSE IF stageConfig.users # {} THEN toString(userId) \in stageConfig.users
  ELSE FALSE

\* checkWorkflowPermission(stageConfig, userId, action)
checkWorkflowPermission(stageConfig, userId, action) ==
  IF action \notin stageConfig.actions THEN FALSE
  ELSE IF stageConfig.role # Null /\ ~checkUserRole(userId, stageConfig.role) THEN FALSE
  ELSE IF stageConfig.users # {} THEN toString(userId) \in stageConfig.users
  ELSE TRUE

\* the find without the test !t.action
MatchingTransitions_ExactOnly(wf, currentStage, action) ==
  {i \in 1..Len(wf.transitions) :
     /\ wf.transitions[i].from = currentStage
     /\ wf.transitions[i].action = action}

\* workflow.transitions.find(t => t.from === currentStage && (t.action === action || !t.action))
\* as the set of indexes the predicate accepts
MatchingTransitions(wf, currentStage, action) ==
  {i \in 1..Len(wf.transitions) :
     /\ wf.transitions[i].from = currentStage
     /\ (wf.transitions[i].action = action \/ wf.transitions[i].action = Null)}

\* findNextStage taking the last matching transition instead of the first
findNextStage_LastMatch(wf, currentStage, action) ==
  LET m == MatchingTransitions(wf, currentStage, action) IN
  IF m # {}
    THEN wf.transitions[CHOOSE i \in m : \A j \in m : j <= i].to
    ELSE Null

\* findNextStage treating a transition with a condition as not taken
findNextStage_ConditionBlocks(wf, currentStage, action) ==
  LET m == MatchingTransitions(wf, currentStage, action) IN
  IF m # {}
    THEN LET transition == wf.transitions[Min(m)] IN
         IF transition.condition # Null THEN Null ELSE transition.to
    ELSE Null

\* findNextStage returning the transition's action in place of its target
findNextStage_ReturnsAction(wf, currentStage, action) ==
  LET m == MatchingTransitions(wf, currentStage, action) IN
  IF m # {} THEN wf.transitions[Min(m)].action ELSE Null

\* findNextStage(workflow, currentStage, action)
findNextStage(wf, currentStage, action) ==
  LET m == MatchingTransitions(wf, currentStage, action) IN
  IF m # {}
    THEN LET transition == wf.transitions[Min(m)] IN
         IF transition.condition # Null THEN transition.to ELSE transition.to
    ELSE Null

\* workflow.stages[0]?.id
FirstStageId(wf) == IF Len(wf.stages) > 0 THEN wf.stages[1].id ELSE Null

\* submission.workflowState?.currentStage || workflow.stages[0]?.id
ResolveCurrentStage(wf, sub) ==
  IF sub.workflowState.present /\ sub.workflowState.currentStage # Null
    THEN sub.workflowState.currentStage
    ELSE FirstStageId(wf)

\* a lookup that takes the first stage when the id names none
FindStage_FallsBackToFirst(wf, currentStage) ==
  LET m == {i \in 1..Len(wf.stages) : wf.stages[i].id = currentStage} IN
  IF m # {} THEN << wf.stages[Min(m)] >>
  ELSE IF Len(wf.stages) > 0 THEN << wf.stages[1] >> ELSE << >>

\* workflow.stages.find(stage => stage.id === currentStage): <<>> or <<stage>>
FindStage(wf, currentStage) ==
  LET m == {i \in 1..Len(wf.stages) : wf.stages[i].id = currentStage} IN
  IF m = {} THEN << >> ELSE << wf.stages[Min(m)] >>

\* the status with approve always final
NewStatus_ApproveFinal(sub, action, nextStage) ==
  IF action = "approve" THEN "approved"
  ELSE IF action = "reject" THEN "rejected"
  ELSE IF action = "submit" THEN "submitted"
  ELSE sub.status

\* the status in_review whenever a transition was found
NewStatus_InReviewOnMove(sub, action, nextStage) ==
  IF nextStage # Null THEN "in_review"
  ELSE IF action = "approve" THEN "approved"
  ELSE IF action = "reject" THEN "rejected"
  ELSE IF action = "submit" THEN "submitted"
  ELSE sub.status

\* the status of an action other than approve, reject, submit reset to draft
NewStatus_OtherResets(sub, action, nextStage) ==
  IF action = "approve" THEN (IF nextStage # Null THEN "in_review" ELSE "approved")
  ELSE IF action = "reject" THEN "rejected"
  ELSE IF action = "submit" THEN "submitted"
  ELSE "draft"

\* the status of approve in_review even when no transition was found
NewStatus_ApproveNeverFinal(sub, action, nextStage) ==
  IF action = "approve" THEN "in_review"
  ELSE IF action = "reject" THEN "rejected"
  ELSE IF action = "submit" THEN "submitted"
  ELSE sub.status

\* the status chosen from the action and the transition found
NewStatus(sub, action, nextStage) ==
  IF action = "approve" THEN (IF nextStage # Null THEN "in_review" ELSE "approved")
  ELSE IF action = "reject" THEN "rejected"
  ELSE IF action = "submit" THEN "submitted"
  ELSE sub.status

\* the history entry pushed by executeWorkflowAction
HistoryEntry(currentStage, action, userId, now, comments) ==
  [stage |-> currentStage, action |-> action, user |-> userId,
   timestamp |-> now, comments |-> comments]

\* history.unshift(entry) instead of push
PushHistory_Unshift(workflowState, entry) ==
  [workflowState EXCEPT !.history = << entry >> \o @]

\* history = [entry] instead of push
PushHistory_Replace(workflowState, entry) ==
  [workflowState EXCEPT !.history = << entry >>]

\* workflowState.history.push(entry)
PushHistory(workflowState, entry) ==
  [workflowState EXCEPT !.history = Append(@, entry)]

\* executeWorkflowAction refusing every action once the status is approved or rejected
Execute_BlocksTerminal(wf, sub, action, userId, now, comments) ==
  LET currentStage == ResolveCurrentStage(wf, sub)
      cfg == FindStage(wf, currentStage)
      nextStage == findNextStage(wf, currentStage, action)
      base == IF sub.workflowState.present
                THEN sub.workflowState
                ELSE [present |-> TRUE, currentStage |-> FirstStageId(wf), history |-> << >>]
      pushed == PushHistory(base, HistoryEntry(currentStage, action, userId, now, comments))
      moved == IF nextStage # Null THEN [pushed EXCEPT !.currentStage = nextStage] ELSE pushed
  IN
  IF cfg = << >>
    THEN [outcome |-> "InvalidState", workflowState |-> sub.workflowState, status |-> sub.status]
  ELSE IF sub.status \in {"approved", "rejected"}
    THEN [outcome |-> "Forbidden", workflowState |-> sub.workflowState, status |-> sub.status]
  ELSE IF ~checkWorkflowPermission(cfg[1], userId, action)
    THEN [outcome |-> "Forbidden", workflowState |-> sub.workflowState, status |-> sub.status]
  ELSE [outcome |-> "ok", workflowState |-> moved, status |-> NewStatus(sub, action, nextStage)]

\* The synchronous part of executeWorkflowAction between the load and the
\* save: outcome, the workflow state built in memory and the status.
Execute(wf, sub, action, userId, now, comments) ==
  LET currentStage == ResolveCurrentStage(wf, sub)
      cfg == FindStage(wf, currentStage)
      nextStage == findNextStage(wf, currentStage, action)
      base == IF sub.workflowState.present
                THEN sub.workflowState
                ELSE [present |-> TRUE, currentStage |-> FirstStageId(wf), history |-> << >>]
      pushed == PushHistory(base, HistoryEntry(currentStage, action, userId, now, comments))
      moved == IF nextStage # Null THEN [pushed EXCEPT !.currentStage = nextStage] ELSE pushed
  IN
  IF cfg = << >>
    THEN [outcome |-> "InvalidState", workflowState |-> sub.workflowState, status |-> sub.status]
  ELSE IF ~checkWorkflowPermission(cfg[1], userId, action)
    THEN [outcome |-> "Forbidden", workflowState |-> sub.workflowState, status |-> sub.status]
  ELSE [outcome |-> "ok", workflowState |-> moved, status |-> NewStatus(sub, action, nextStage)]

\* what a call reports: its arguments, what it loaded, how it ended,
\* the workflow state it holds in memory, whether it called
\* updateFormSubmission, and the value it returned
NoCall ==
  [sid |-> Null, action |-> Null, user |-> 0, comments |-> Null,
   outcome |-> "none", found |-> FALSE,
   loaded |-> [status |-> Null, workflowState |-> NoWorkflowState],
   memory |-> NoWorkflowState, saveCalled |-> FALSE,
   ret |-> [currentStage |-> Null, status |-> Null, history |-> << >>]]

Report(sid, action, userId, comments, outcome, found, loaded, memory, status, saveCalled) ==
  [sid |-> sid, action |-> action, user |-> userId, comments |-> comments,
   outcome |-> outcome, found |-> found, loaded |-> loaded,
   memory |-> memory, saveCalled |-> saveCalled,
   ret |-> IF outcome = "ok"
             THEN [currentStage |-> memory.currentStage, status |-> status,
                   history |-> memory.history]
             ELSE NoCall.ret]

\* ---------------------------------------------------- permissionService
\* requests made of the permission evaluator
CheckUserIds == {1, 2, 3}
Resources == {"form", "report"}
PermActions == {"read", "update"}
ResourceIds == {"r1", "r2"}
Fields == {"name", "salary"}

\* number of grants in the store at the start
MaxGrants == 2

\* an object without keys
NoKeys == << >>

Grant(id, user, resource, resourceId, hasPermissions, permissions, hasFieldPermissions, fieldPermissions) ==
  [id |-> id, user |-> user, resource |-> resource, resourceId |-> resourceId,
   hasPermissions |-> hasPermissions, permissions |-> permissions,
   hasFieldPermissions |-> hasFieldPermissions, fieldPermissions |-> fieldPermissions]

\* the rows a store starts from
GrantRows ==
  { Grant("g1", 2, "form", "r1", TRUE, [a \in {"read"} |-> TRUE], FALSE, NoKeys),
    Grant("g2", 2, "form", "r2", TRUE, ("read" :> FALSE) @@ ("update" :> TRUE),
          TRUE, [f \in {"salary"} |-> ("read" :> TRUE) @@ ("update" :> FALSE)]),
    Grant("g3", 2, "form", Null, TRUE, [a \in {"update"} |-> TRUE], TRUE, NoKeys),
    Grant("g4", 1, "report", "r1", TRUE, [a \in {"read"} |-> FALSE], FALSE, NoKeys),
    Grant("g5", 2, "report", "r1", FALSE, NoKeys,
          TRUE, [f \in {"name"} |-> [a \in {"read"} |-> TRUE]]) }

RECURSIVE StoresOfLength(_)
StoresOfLength(n) ==
  IF n = 0 THEN {<< >>}
  ELSE {Append(st, g) : st \in StoresOfLength(n - 1), g \in GrantRows}

HasDuplicateRow(st) == \E i, j \in 1..Len(st) : i # j /\ st[i].id = st[j].id

GrantStores ==
  {st \in UNION {StoresOfLength(n) : n \in 0..MaxGrants} : ~HasDuplicateRow(st)}

\* user.permissions lists
GlobalEntry(resource, actions) == [resource |-> resource, actions |-> actions]
GlobalLists ==
  { << >>,
    << GlobalEntry("form", {"read"}) >>,
    << GlobalEntry("*", {"read"}), GlobalEntry("form", {"update"}) >>,
    << GlobalEntry("report", {"read", "update"}) >> }

UserTables ==
  {(1 :> [role |-> r, permissions |-> << >>]) @@ (2 :> [role |-> "user", permissions |-> gl]) :
     r \in {"super_admin"}, gl \in GlobalLists}

\* what the storage does during one check: which await throws, if any
\* (getUserById or PermissionModel.findOne), and which of the matching rows
\* findOne returns (the query names no order)
Faults == {"none", "user", "grant"}
Envs == [fault : Faults, pick : 0..1]

\* getUserById(userId): <<>> for null, <<user>> otherwise
getUserById(us, userId) == IF userId \in DOMAIN us THEN << us[userId] >> ELSE << >>

\* user.permissions.find(perm => perm.resource === resource || perm.resource === '*')
\* followed by globalPermission && globalPermission.actions.includes(action)
GlobalAllows(user, resource, action) ==
  LET m == {i \in 1..Len(user.permissions) : user.permissions[i].resource \in {resource, "*"}} IN
  m # {} /\ action \in user.permissions[Min(m)].actions

\* rows that satisfy the query {user, resource[, resourceId]}
QueryMatches(gs, userId, resource, resourceId, withResourceId) ==
  {i \in 1..Len(gs) :
     /\ gs[i].user = userId
     /\ gs[i].resource = resource
     /\ (withResourceId => gs[i].resourceId = resourceId)}

\* PermissionModel.findOne(query): <<>> for null, <<row>> otherwise
findOne(gs, matches, pick) ==
  IF matches = {} THEN << >>
  ELSE IF pick = 0 THEN << gs[Min(matches)] >>
  ELSE << gs[CHOOSE i \in matches : \A j \in matches : j <= i] >>

\* permission.permissions && permission.permissions[action] === true
CoarseFlag(permission, action) ==
  IF ~permission.hasPermissions THEN "null"
  ELSE IF action \in DOMAIN permission.permissions /\ permission.permissions[action]
    THEN "true" ELSE "false"

\* what a check reports: the value it returns ("raised" when it throws),
\* the await that threw, and the id of the row findOne returned
Outcome(value, threw, row) == [value |-> value, threw |-> threw, row |-> row]

\* the try block of checkPermission without the super_admin short-circuit
checkPermissionBody_NoSuperAdmin(us, gs, userId, resource, action, resourceId, env) ==
  IF env.fault = "user" THEN Outcome("raised", "user", Null)
  ELSE LET user == getUserById(us, userId) IN
    IF user = << >> THEN Outcome("false", "none", Null)
    ELSE IF GlobalAllows(user[1], resource, action) THEN Outcome("true", "none", Null)
    ELSE IF env.fault = "grant" THEN Outcome("raised", "grant", Null)
    ELSE LET permission == findOne(gs,
                 QueryMatches(gs, userId, resource, resourceId, resourceId # Null), env.pick) IN
      IF permission = << >> THEN Outcome("false", "none", Null)
      ELSE Outcome(CoarseFlag(permission[1], action), "none", permission[1].id)

\* the try block of checkPermission
checkPermissionBody(us, gs, userId, resource, action, resourceId, env) ==
  IF env.fault = "user" THEN Outcome("raised", "user", Null)
  ELSE LET user == getUserById(us, userId) IN
    IF user = << >> THEN Outcome("false", "none", Null)
    ELSE IF user[1].role = "super_admin" THEN Outcome("true", "none", Null)
    ELSE IF GlobalAllows(user[1], resource, action) THEN Outcome("true", "none", Null)
    ELSE IF env.fault = "grant" THEN Outcome("raised", "grant", Null)
    ELSE LET permission == findOne(gs,
                 QueryMatches(gs, userId, resource, resourceId, resourceId # Null), env.pick) IN
      IF permission = << >> THEN Outcome("false", "none", Null)
      ELSE Outcome(CoarseFlag(permission[1], action), "none", permission[1].id)

\* catch (error) { throw error }
CatchReturnsFalse_Rethrow(r) == r

\* catch (error) { return false }
CatchReturnsFalse(r) == IF r.value = "raised" THEN [r EXCEPT !.value = "false"] ELSE r

\* checkPermission(userId, resource, action, resourceId = null)
checkPermission(us, gs, userId, resource, action, resourceId, env) ==
  CatchReturnsFalse(checkPermissionBody(us, gs, userId, resource, action, resourceId, env))

NoInner == Outcome(Null, "none", Null)

\* checkFieldPermission denying when no grant or no fieldPermissions is found
checkFieldPermissionBody_DenyWithoutFields(us, gs, userId, resource, resourceId, fieldName, action, env, env2) ==
  LET Out(value, threw, row) ==
        [value |-> value, threw |-> threw, row |-> row, inner |-> NoInner] IN
  IF env.fault = "user" THEN Out("raised", "user", Null)
  ELSE LET user == getUserById(us, userId) IN
    IF user = << >> THEN Out("false", "none", Null)
    ELSE IF user[1].role = "super_admin" THEN Out("true", "none", Null)
    ELSE IF env.fault = "grant" THEN Out("raised", "grant", Null)
    ELSE LET permission == findOne(gs,
                 QueryMatches(gs, userId, resource, resourceId, TRUE), env.pick) IN
      IF permission = << >> \/ ~permission[1].hasFieldPermissions
        THEN LET general == checkPermission(us, gs, userId, resource, action, resourceId, env2) IN
             [value |-> "false", threw |-> "none",
              row |-> IF permission = << >> THEN Null ELSE permission[1].id,
              inner |-> general]
      ELSE IF fieldName \notin DOMAIN permission[1].fieldPermissions
        THEN Out(CoarseFlag(permission[1], action), "none", permission[1].id)
      ELSE LET fieldPermission == permission[1].fieldPermissions[fieldName] IN
        Out(IF action \in DOMAIN fieldPermission /\ fieldPermission[action]
              THEN "true" ELSE "false", "none", permission[1].id)

\* checkFieldPermission asking checkPermission for a field without entry
checkFieldPermissionBody_GeneralForField(us, gs, userId, resource, resourceId, fieldName, action, env, env2) ==
  LET Out(value, threw, row) ==
        [value |-> value, threw |-> threw, row |-> row, inner |-> NoInner] IN
  IF env.fault = "user" THEN Out("raised", "user", Null)
  ELSE LET user == getUserById(us, userId) IN
    IF user = << >> THEN Out("false", "none", Null)
    ELSE IF user[1].role = "super_admin" THEN Out("true", "none", Null)
    ELSE IF env.fault = "grant" THEN Out("raised", "grant", Null)
    ELSE LET permission == findOne(gs,
                 QueryMatches(gs, userId, resource, resourceId, TRUE), env.pick) IN
      IF permission = << >> \/ ~permission[1].hasFieldPermissions
        THEN LET general == checkPermission(us, gs, userId, resource, action, resourceId, env2) IN
             [value |-> general.value, threw |-> "none",
              row |-> IF permission = << >> THEN Null ELSE permission[1].id,
              inner |-> general]
      ELSE IF fieldName \notin DOMAIN permission[1].fieldPermissions
        THEN Out(checkPermission(us, gs, userId, resource, action, resourceId, env2).value,
                 "none", permission[1].id)
      ELSE LET fieldPermission == permission[1].fieldPermissions[fieldName] IN
        Out(IF action \in DOMAIN fieldPermission /\ fieldPermission[action]
              THEN "true" ELSE "false", "none", permission[1].id)

\* checkFieldPermission requiring the coarse flag next to the field flag
checkFieldPermissionBody_CoarseToo(us, gs, userId, resource, resourceId, fieldName, action, env, env2) ==
  LET Out(value, threw, row) ==
        [value |-> value, threw |-> threw, row |-> row, inner |-> NoInner] IN
  IF env.fault = "user" THEN Out("raised", "user", Null)
  ELSE LET user == getUserById(us, userId) IN
    IF user = << >> THEN Out("false", "none", Null)
    ELSE IF user[1].role = "super_admin" THEN Out("true", "none", Null)
    ELSE IF env.fault = "grant" THEN Out("raised", "grant", Null)
    ELSE LET permission == findOne(gs,
                 QueryMatches(gs, userId, resource, resourceId, TRUE), env.pick) IN
      IF permission = << >> \/ ~permission[1].hasFieldPermissions
        THEN LET general == checkPermission(us, gs, userId, resource, action, resourceId, env2) IN
             [value |-> general.value, threw |-> "none",
              row |-> IF permission = << >> THEN Null ELSE permission[1].id,
              inner |-> general]
      ELSE IF fieldName \notin DOMAIN permission[1].fieldPermissions
        THEN Out(CoarseFlag(permission[1], action), "none", permission[1].id)
      ELSE LET fieldPermission == permission[1].fieldPermissions[fieldName] IN
        Out(IF /\ action \in DOMAIN fieldPermission /\ fieldPermission[action]
               /\ CoarseFlag(permission[1], action) = "true"
              THEN "true" ELSE "false", "none", permission[1].id)

\* the try block of checkFieldPermission; env2 is what the storage does
\* during the checkPermission call it falls back to, reported as `inner`
checkFieldPermissionBody(us, gs, userId, resource, resourceId, fieldName, action, env, env2) ==
  LET Out(value, threw, row) ==
        [value |-> value, threw |-> threw, row |-> row, inner |-> NoInner] IN
  IF env.fault = "user" THEN Out("raised", "user", Null)
  ELSE LET user == getUserById(us, userId) IN
    IF user = << >> THEN Out("false", "none", Null)
    ELSE IF user[1].role = "super_admin" THEN Out("true", "none", Null)
    ELSE IF env.fault = "grant" THEN Out("raised", "grant", Null)
    ELSE LET permission == findOne(gs,
                 QueryMatches(gs, userId, resource, resourceId, TRUE), env.pick) IN
      IF permission = << >> \/ ~permission[1].hasFieldPermissions
        THEN LET general == checkPermission(us, gs, userId, resource, action, resourceId, env2) IN
             [value |-> general.value, threw |-> "none",
              row |-> IF permission = << >> THEN Null ELSE permission[1].id,
              inner |-> general]
      ELSE IF fieldName \notin DOMAIN permission[1].fieldPermissions
        THEN Out(CoarseFlag(permission[1], action), "none", permission[1].id)
      ELSE LET fieldPermission == permission[1].fieldPermissions[fieldName] IN
        Out(IF action \in DOMAIN fieldPermission /\ fieldPermission[action]
              THEN "true" ELSE "false", "none", permission[1].id)

\* checkFieldPermission(userId, resource, resourceId, fieldName, action)
checkFieldPermission(us, gs, userId, resource, resourceId, fieldName, action, env, env2) ==
  CatchReturnsFalse(checkFieldPermissionBody(us, gs, userId, resource, resourceId,
                                             fieldName, action, env, env2))

NoCheck ==
  [op |-> "none", user |-> 0, resource |-> Null, action |-> Null, resourceId |-> Null,
   field |-> Null, out |-> Outcome(Null, "none", Null), inner |-> NoInner]

\* ------------------------------------- grantPermission / revokePermission
\* number of grantPermission / revokePermission calls in one behaviour
MaxPermOps == 2

\* arguments of the calls
GrantUserIds == {2}
GrantResourceIds == {"r1", Null}
GrantFlagArgs == { [a \in {"read"} |-> TRUE], [a \in {"update"} |-> TRUE], [a \in {"read"} |-> FALSE] }
\* fieldPermissions = null, or one field's entry
NoFieldArg == [present |-> FALSE, fields |-> NoKeys]
GrantFieldArgs == { NoFieldArg, [present |-> TRUE, fields |-> [f \in {"salary"} |-> [a \in {"update"} |-> TRUE]]] }
RevokeActionArgs == { {"read"}, {"read", "update"} }

\* ids of the rows createPermission adds, by the number of the call
NewId(seq) == CASE seq = 0 -> "n1" [] seq = 1 -> "n2" [] seq = 2 -> "n3" [] seq = 3 -> "n4" [] OTHER -> "n5"

Max(S) == CHOOSE x \in S : \A y \in S : y <= x

\* a find that never matches (ids compared with the wrong type)
ExistingGrant_NeverMatches(gs, userId, resource, resourceId) == 0

\* getUserPermissions(userId) (newest first) followed by
\* find(p => p.resource === resource && p.resourceId === resourceId):
\* the position of the row found, 0 for undefined
ExistingGrant(gs, userId, resource, resourceId) ==
  LET m == {i \in 1..Len(gs) :
              gs[i].user = userId /\ gs[i].resource = resource /\ gs[i].resourceId = resourceId} IN
  IF m = {} THEN 0 ELSE Max(m)

\* the new object alone, without the spread of the existing one
SpreadMerge_Replace(old, new) == new

\* { ...old, ...new }
SpreadMerge(old, new) ==
  [k \in DOMAIN old \cup DOMAIN new |-> IF k \in DOMAIN new THEN new[k] ELSE old[k]]

\* only the named actions, without the spread of the existing flags
RevokedPermissions_OnlyNamed(old, actions) == [a \in actions |-> FALSE]

\* updatedPermissions = { ...permission.permissions }; actions.forEach(a => updatedPermissions[a] = false)
RevokedPermissions(old, actions) ==
  [k \in DOMAIN old \cup actions |-> IF k \in actions THEN FALSE ELSE old[k]]

\* createPermission(permissionData): the store with the new row
createPermission(gs, row) == Append(gs, row)

\* grantPermission merging each named field's entry flag by flag
grantPermission_DeepFieldMerge(gs, newId, userId, resource, resourceId, permissions, fieldArg) ==
  LET i == ExistingGrant(gs, userId, resource, resourceId) IN
  IF i # 0
    THEN [gs EXCEPT ![i] =
            [@ EXCEPT !.hasPermissions = TRUE,
                      !.permissions = SpreadMerge(gs[i].permissions, permissions),
                      !.hasFieldPermissions = IF fieldArg.present THEN TRUE ELSE @,
                      !.fieldPermissions = IF fieldArg.present
                                             THEN [f \in DOMAIN gs[i].fieldPermissions \cup DOMAIN fieldArg.fields |->
                                                     IF f \notin DOMAIN fieldArg.fields THEN gs[i].fieldPermissions[f]
                                                     ELSE IF f \notin DOMAIN gs[i].fieldPermissions THEN fieldArg.fields[f]
                                                     ELSE SpreadMerge(gs[i].fieldPermissions[f], fieldArg.fields[f])]
                                             ELSE @]]
    ELSE createPermission(gs,
           Grant(newId, userId, resource, resourceId, TRUE, permissions,
                 fieldArg.present, fieldArg.fields))

\* the store after grantPermission(userId, resource, resourceId, permissions, fieldPermissions)
grantPermission(gs, newId, userId, resource, resourceId, permissions, fieldArg) ==
  LET i == ExistingGrant(gs, userId, resource, resourceId) IN
  IF i # 0
    THEN [gs EXCEPT ![i] =
            [@ EXCEPT !.hasPermissions = TRUE,
                      !.permissions = SpreadMerge(gs[i].permissions, permissions),
                      !.hasFieldPermissions = IF fieldArg.present THEN TRUE ELSE @,
                      !.fieldPermissions = IF fieldArg.present
                                             THEN SpreadMerge(gs[i].fieldPermissions, fieldArg.fields)
                                             ELSE @]]
    ELSE createPermission(gs,
           Grant(newId, userId, resource, resourceId, TRUE, permissions,
                 fieldArg.present, fieldArg.fields))

\* revokePermission storing a row of refused actions when none is found
revokePermission_CreatesDenied(gs, userId, resource, resourceId, actions) ==
  LET i == ExistingGrant(gs, userId, resource, resourceId) IN
  IF i = 0
    THEN Append(gs, Grant("denied", userId, resource, resourceId, TRUE,
                          [a \in actions |-> FALSE], FALSE, NoKeys))
  ELSE [gs EXCEPT ![i] =
          [@ EXCEPT !.hasPermissions = TRUE,
                    !.permissions = RevokedPermissions(gs[i].permissions, actions)]]

\* the store after revokePermission(userId, resource, resourceId, actions)
revokePermission(gs, userId, resource, resourceId, actions) ==
  LET i == ExistingGrant(gs, userId, resource, resourceId) IN
  IF i = 0 THEN gs
  ELSE [gs EXCEPT ![i] =
          [@ EXCEPT !.hasPermissions = TRUE,
                    !.permissions = RevokedPermissions(gs[i].permissions, actions)]]

\* what a call reports: its number, its arguments, the position of the row
\* its find returned (0 for none), the number of rows before, and whether it
\* created a row, updated one, or returned false
NoGrant ==
  [seq |-> 0, op |-> "none", user |-> 0, resource |-> Null, resourceId |-> Null,
   permissions |-> NoKeys, fieldArg |-> NoFieldArg, actions |-> {},
   found |-> 0, rowsBefore |-> 0, result |-> Null]

\* the users of the grant runs: a super_admin and a plain user without
\* embedded permissions
PlainUsers ==
  (1 :> [role |-> "super_admin", permissions |-> << >>])
    @@ (2 :> [role |-> "user", permissions |-> << >>])

\* ------------------------------------------------------------------- Init
FreshSubmissions ==
  {[status |-> st, workflowState |-> ws] :
     st \in {"draft", "submitted"}, ws \in {NoWorkflowState, EmptyWorkflowState}}

\* the users acting on workflows: both are managers, neither is an admin
WorkflowUsers == [u \in UserIds |-> [role |-> "manager", permissions |-> << >>]]

Idle == [pc |-> "idle"]
Done == [pc |-> "done"]

InitCommon ==
  /\ workflow \in Workflows
  /\ \E s \in FreshSubmissions : submissions = [id \in {"sub1"} |-> s]
  /\ clock = 0
  /\ okCalls = 0
  /\ last = NoCall
  /\ users = WorkflowUsers
  /\ grants = << >>
  /\ lastCheck = NoCheck
  /\ lastGrant = NoGrant

Init ==
  /\ InitCommon
  /\ calls = << >>

\* ---------------------------------------------- executeWorkflowAction, whole
\* a save that pushes the new entry onto the stored history instead of
\* writing the whole workflowState
updateFormSubmission_PushOnly(store, sid, workflowState, status) ==
  IF sid \in DOMAIN store
    THEN [store EXCEPT ![sid] =
            [status |-> status,
             workflowState |->
               [workflowState EXCEPT !.history =
                  Append(store[sid].workflowState.history,
                         workflowState.history[Len(workflowState.history)])]]]
    ELSE store

\* updateFormSubmission(submissionId, {workflowState, status})
updateFormSubmission(store, sid, workflowState, status) ==
  IF sid \in DOMAIN store
    THEN [store EXCEPT ![sid] = [@ EXCEPT !.status = status, !.workflowState = workflowState]]
    ELSE store

\* a load that stores an empty record for an id it does not find
ExecNotFound_CreatesRecord(sid, action, userId, comments) ==
  /\ sid \notin DOMAIN submissions
  /\ submissions' = submissions @@ (sid :> [status |-> "draft", workflowState |-> NoWorkflowState])
  /\ last' = Report(sid, action, userId, comments, "NotFound", FALSE,
                    NoCall.loaded, NoWorkflowState, Null, FALSE)
  /\ UNCHANGED <<workflow, clock, okCalls, calls, users, grants, lastCheck, lastGrant>>

\* getFormSubmissionById returned null
ExecNotFound(sid, action, userId, comments) ==
  /\ sid \notin DOMAIN submissions
  /\ last' = Report(sid, action, userId, comments, "NotFound", FALSE,
                    NoCall.loaded, NoWorkflowState, Null, FALSE)
  /\ UNCHANGED <<workflow, submissions, clock, okCalls, calls, users, grants, lastCheck, lastGrant>>

\* the call throws before it pushes to the history
ExecRejected(sid, action, userId, comments) ==
  /\ sid \in DOMAIN submissions
  /\ LET sub == submissions[sid]
         r == Execute(workflow, sub, action, userId, clock, comments) IN
     /\ r.outcome # "ok"
     /\ last' = Report(sid, action, userId, comments, r.outcome, TRUE, sub,
                       sub.workflowState, sub.status, FALSE)
  /\ UNCHANGED <<workflow, submissions, clock, okCalls, calls, users, grants, lastCheck, lastGrant>>

\* the call pushes, saves and returns
ExecOk(sid, action, userId, comments) ==
  /\ sid \in DOMAIN submissions
  /\ clock < MaxCalls
  /\ LET sub == submissions[sid]
         r == Execute(workflow, sub, action, userId, clock, comments) IN
     /\ r.outcome = "ok"
     /\ submissions' = updateFormSubmission(submissions, sid, r.workflowState, r.status)
     /\ last' = Report(sid, action, userId, comments, "ok", TRUE, sub,
                       r.workflowState, r.status, TRUE)
  /\ clock' = clock + 1
  /\ okCalls' = okCalls + 1
  /\ UNCHANGED <<workflow, calls, users, grants, lastCheck, lastGrant>>

\* a failed save that takes the pushed entry off the loaded workflow state again
ExecSaveFails_RollsBack(sid, action, userId, comments) ==
  /\ sid \in DOMAIN submissions
  /\ clock < MaxCalls
  /\ LET sub == submissions[sid]
         r == Execute(workflow, sub, action, userId, clock, comments) IN
     /\ r.outcome = "ok"
     /\ last' = Report(sid, action, userId, comments, "SaveFailed", TRUE, sub,
                       sub.workflowState, r.status, TRUE)
  /\ clock' = clock + 1
  /\ UNCHANGED <<workflow, submissions, okCalls, calls, users, grants, lastCheck, lastGrant>>

\* the call pushes and updateFormSubmission throws
ExecSaveFails(sid, action, userId, comments) ==
  /\ sid \in DOMAIN submissions
  /\ clock < MaxCalls
  /\ LET sub == submissions[sid]
         r == Execute(workflow, sub, action, userId, clock, comments) IN
     /\ r.outcome = "ok"
     /\ last' = Report(sid, action, userId, comments, "SaveFailed", TRUE, sub,
                       r.workflowState, r.status, TRUE)
  /\ clock' = clock + 1
  /\ UNCHANGED <<workflow, submissions, okCalls, calls, users, grants, lastCheck, lastGrant>>

executeWorkflowAction(sid, action, userId, comments) ==
  \/ ExecNotFound(sid, action, userId, comments)
  \/ ExecRejected(sid, action, userId, comments)
  \/ ExecOk(sid, action, userId, comments)
  \/ ExecSaveFails(sid, action, userId, comments)

Next ==
  \E sid \in SubIds, action \in ReqActions, userId \in UserIds, comments \in Comments :
    executeWorkflowAction(sid, action, userId, comments)

Spec == Init /\ [][Next]_vars

\* ------------------------------------- executeWorkflowAction, overlapping
\* NProcs requests, one call each, run concurrently; each await is a point where another request
\* may run.  A request reads the store when getFormSubmissionById resolves
\* and writes it when updateFormSubmission resolves; lines 198-246 between
\* the two run without interruption on what the request loaded.
NProcs == 3
Procs == 1..NProcs

\* the definitions and arguments the overlapping requests are drawn from
ConcWorkflows == {WfChain}
ConcActions == {"approve", "reject"}

InitConc ==
  /\ InitCommon
  /\ workflow \in ConcWorkflows
  /\ calls = [p \in Procs |-> Idle]

\* await getFormSubmissionById(submissionId)
ConcLoad(p, sid, action, userId, comments) ==
  /\ calls[p].pc = "idle"
  /\ calls' = [calls EXCEPT ![p] =
       [pc |-> "loaded", sid |-> sid, action |-> action, user |-> userId,
        comments |-> comments, found |-> sid \in DOMAIN submissions,
        loaded |-> IF sid \in DOMAIN submissions THEN submissions[sid] ELSE NoCall.loaded]]
  /\ UNCHANGED <<workflow, submissions, clock, okCalls, last, users, grants, lastCheck, lastGrant>>

\* if (!submission) throw new Error('Submission not found')
ConcNotFound(p) ==
  /\ calls[p].pc = "loaded"
  /\ ~calls[p].found
  /\ LET c == calls[p] IN
     last' = Report(c.sid, c.action, c.user, c.comments, "NotFound", FALSE,
                    NoCall.loaded, NoWorkflowState, Null, FALSE)
  /\ calls' = [calls EXCEPT ![p] = Done]
  /\ UNCHANGED <<workflow, submissions, clock, okCalls, users, grants, lastCheck, lastGrant>>

\* the request throws before it pushes to the history
ConcRejected(p) ==
  /\ calls[p].pc = "loaded"
  /\ calls[p].found
  /\ LET c == calls[p]
         r == Execute(workflow, c.loaded, c.action, c.user, clock, c.comments) IN
     /\ r.outcome # "ok"
     /\ last' = Report(c.sid, c.action, c.user, c.comments, r.outcome, TRUE, c.loaded,
                       c.loaded.workflowState, c.loaded.status, FALSE)
  /\ calls' = [calls EXCEPT ![p] = Done]
  /\ UNCHANGED <<workflow, submissions, clock, okCalls, users, grants, lastCheck, lastGrant>>

\* the request pushes, await updateFormSubmission(...) writes, the request returns
ConcSave(p) ==
  /\ calls[p].pc = "loaded"
  /\ calls[p].found
  /\ LET c == calls[p]
         r == Execute(workflow, c.loaded, c.action, c.user, clock, c.comments) IN
     /\ r.outcome = "ok"
     /\ submissions' = updateFormSubmission(submissions, c.sid, r.workflowState, r.status)
     /\ last' = Report(c.sid, c.action, c.user, c.comments, "ok", TRUE, c.loaded,
                       r.workflowState, r.status, TRUE)
  /\ clock' = clock + 1
  /\ okCalls' = okCalls + 1
  /\ calls' = [calls EXCEPT ![p] = Done]
  /\ UNCHANGED <<workflow, users, grants, lastCheck, lastGrant>>

\* the request pushes and updateFormSubmission throws
ConcSaveFails(p) ==
  /\ calls[p].pc = "loaded"
  /\ calls[p].found
  /\ LET c == calls[p]
         r == Execute(workflow, c.loaded, c.action, c.user, clock, c.comments) IN
     /\ r.outcome = "ok"
     /\ last' = Report(c.sid, c.action, c.user, c.comments, "SaveFailed", TRUE, c.loaded,
                       r.workflowState, r.status, TRUE)
  /\ clock' = clock + 1
  /\ calls' = [calls EXCEPT ![p] = Done]
  /\ UNCHANGED <<workflow, submissions, okCalls, users, grants, lastCheck, lastGrant>>

NextConc ==
  \E p \in Procs :
    \/ \E sid \in SubIds, action \in ConcActions, userId \in UserIds, comments \in Comments :
         ConcLoad(p, sid, action, userId, comments)
    \/ ConcNotFound(p)
    \/ ConcRejected(p)
    \/ ConcSave(p)
    \/ ConcSaveFails(p)

SpecConc == InitConc /\ [][NextConc]_vars

\* ------------------------------------------------ permission evaluator runs
InitPerm ==
  /\ workflow = WfEmpty
  /\ submissions = << >>
  /\ clock = 0
  /\ okCalls = 0
  /\ calls = << >>
  /\ last = NoCall
  /\ users \in UserTables
  /\ grants \in GrantStores
  /\ lastCheck = NoCheck
  /\ lastGrant = NoGrant

\* a caller awaits checkPermission(...)
CheckPermission(userId, resource, action, resourceId, env) ==
  /\ lastCheck.op = "none"
  /\ lastCheck' =
       [op |-> "checkPermission", user |-> userId, resource |-> resource,
        action |-> action, resourceId |-> resourceId, field |-> Null,
        out |-> checkPermission(users, grants, userId, resource, action, resourceId, env),
        inner |-> NoInner]
  /\ UNCHANGED <<workflow, submissions, clock, okCalls, calls, last, users, grants, lastGrant>>

\* a caller awaits checkFieldPermission(...)
CheckFieldPermission(userId, resource, resourceId, fieldName, action, env, env2) ==
  /\ lastCheck.op = "none"
  /\ LET r == checkFieldPermission(users, grants, userId, resource, resourceId,
                                   fieldName, action, env, env2) IN
     lastCheck' =
       [op |-> "checkFieldPermission", user |-> userId, resource |-> resource,
        action |-> action, resourceId |-> resourceId, field |-> fieldName,
        out |-> Outcome(r.value, r.threw, r.row), inner |-> r.inner]
  /\ UNCHANGED <<workflow, submissions, clock, okCalls, calls, last, users, grants, lastGrant>>

\* the caller has taken the result
CheckReturned ==
  /\ lastCheck.op # "none"
  /\ lastCheck' = NoCheck
  /\ UNCHANGED <<workflow, submissions, clock, okCalls, calls, last, users, grants, lastGrant>>

NextPerm ==
  \/ \E userId \in CheckUserIds, resource \in Resources, action \in PermActions,
        resourceId \in ResourceIds \cup {Null}, env \in Envs :
       CheckPermission(userId, resource, action, resourceId, env)
  \/ \E userId \in CheckUserIds, resource \in Resources, resourceId \in ResourceIds \cup {Null},
        fieldName \in Fields, action \in PermActions, env \in Envs, env2 \in Envs :
       CheckFieldPermission(userId, resource, resourceId, fieldName, action, env, env2)
  \/ CheckReturned

SpecPerm == InitPerm /\ [][NextPerm]_vars

\* ------------------------------------------------- grants and revocations
InitGrant ==
  /\ workflow = WfEmpty
  /\ submissions = << >>
  /\ clock = 0
  /\ okCalls = 0
  /\ calls = << >>
  /\ last = NoCall
  /\ users = PlainUsers
  /\ grants \in GrantStores
  /\ lastCheck = NoCheck
  /\ lastGrant = NoGrant

\* a caller awaits grantPermission(...), no other call running
GrantPermission(userId, resource, resourceId, permissions, fieldArg) ==
  /\ lastGrant.seq < MaxPermOps
  /\ grants' = grantPermission(grants, NewId(lastGrant.seq), userId, resource, resourceId,
                               permissions, fieldArg)
  /\ lastGrant' =
       [seq |-> lastGrant.seq + 1, op |-> "grant", user |-> userId, resource |-> resource,
        resourceId |-> resourceId, permissions |-> permissions, fieldArg |-> fieldArg,
        actions |-> {}, found |-> ExistingGrant(grants, userId, resource, resourceId),
        rowsBefore |-> Len(grants),
        result |-> IF ExistingGrant(grants, userId, resource, resourceId) # 0
                     THEN "updated" ELSE "created"]
  /\ UNCHANGED <<workflow, submissions, clock, okCalls, calls, last, users, lastCheck>>

\* a caller awaits revokePermission(...), no other call running
RevokePermission(userId, resource, resourceId, actions) ==
  /\ lastGrant.seq < MaxPermOps
  /\ grants' = revokePermission(grants, userId, resource, resourceId, actions)
  /\ lastGrant' =
       [seq |-> lastGrant.seq + 1, op |-> "revoke", user |-> userId, resource |-> resource,
        resourceId |-> resourceId, permissions |-> NoKeys, fieldArg |-> NoFieldArg,
        actions |-> actions, found |-> ExistingGrant(grants, userId, resource, resourceId),
        rowsBefore |-> Len(grants),
        result |-> IF ExistingGrant(grants, userId, resource, resourceId) # 0
                     THEN "updated" ELSE "false"]
  /\ UNCHANGED <<workflow, submissions, clock, okCalls, calls, last, users, lastCheck>>

NextGrant ==
  \/ \E userId \in GrantUserIds, resource \in Resources, resourceId \in GrantResourceIds,
        permissions \in GrantFlagArgs, fieldArg \in GrantFieldArgs :
       GrantPermission(userId, resource, resourceId, permissions, fieldArg)
  \/ \E userId \in GrantUserIds, resource \in Resources, resourceId \in GrantResourceIds,
        actions \in RevokeActionArgs :
       RevokePermission(userId, resource, resourceId, actions)

SpecGrant == InitGrant /\ [][NextGrant]_vars

\* ------------------------------- grants and revocations followed by checks
\* the stores the runs start from: empty, or one row
AdminStores == {st \in GrantStores : Len(st) <= 1}

\* the (resource, resourceId) pairs granted, revoked and checked
AdminScopes == { <<"form", "r2">>, <<"form", Null>>, <<"report", "r1">> }
AdminFlagArgs == { [a \in {"read"} |-> TRUE], [a \in {"update"} |-> TRUE] }

\* a storage that answers every query, returning any of the matching rows
AdminEnvs == {e \in Envs : e.fault = "none"}

InitAdmin ==
  /\ workflow = WfEmpty
  /\ submissions = << >>
  /\ clock = 0
  /\ okCalls = 0
  /\ calls = << >>
  /\ last = NoCall
  /\ users = PlainUsers
  /\ grants \in AdminStores
  /\ lastCheck = NoCheck
  /\ lastGrant = NoGrant

\* grants, revocations and checks in turn; a check reads the store the
\* grants and revocations before it have left
NextAdmin ==
  \/ /\ lastCheck.op = "none"
     /\ \E userId \in GrantUserIds, scope \in AdminScopes, permissions \in AdminFlagArgs,
           fieldArg \in GrantFieldArgs :
          GrantPermission(userId, scope[1], scope[2], permissions, fieldArg)
  \/ /\ lastCheck.op = "none"
     /\ \E userId \in GrantUserIds, scope \in AdminScopes, actions \in RevokeActionArgs :
          RevokePermission(userId, scope[1], scope[2], actions)
  \/ \E userId \in GrantUserIds, scope \in AdminScopes, action \in PermActions, env \in AdminEnvs :
       CheckPermission(userId, scope[1], action, scope[2], env)
  \/ \E userId \in GrantUserIds, scope \in AdminScopes, fieldName \in Fields,
        action \in PermActions, env \in AdminEnvs, env2 \in AdminEnvs :
       CheckFieldPermission(userId, scope[1], scope[2], fieldName, action, env, env2)
  \/ CheckReturned

SpecAdmin == InitAdmin /\ [][NextAdmin]_vars

\* --------------------------------------------- overlapping grantPermission
\* number of grantPermission calls in flight at once
NGranters == 2
Granters == 1..NGranters

\* the (resource, resourceId) pairs of the overlapping calls
ConcGrantScopes == { <<"form", "r2">>, <<"report", "r1">> }

\* updatePermission(id, { permissions, fieldPermissions }) on the stored row
updatePermission(gs, id, permissions, hasFieldPermissions, fieldPermissions) ==
  [i \in 1..Len(gs) |->
     IF gs[i].id = id
       THEN [gs[i] EXCEPT !.hasPermissions = TRUE,
                          !.permissions = permissions,
                          !.hasFieldPermissions = hasFieldPermissions,
                          !.fieldPermissions = fieldPermissions]
       ELSE gs[i]]

InitGrantConc ==
  /\ workflow = WfEmpty
  /\ submissions = << >>
  /\ clock = 0
  /\ okCalls = 0
  /\ calls = [p \in Granters |-> Idle]
  /\ last = NoCall
  /\ users = PlainUsers
  /\ grants \in AdminStores
  /\ lastCheck = NoCheck
  /\ lastGrant = NoGrant

\* existingPermission = await getUserPermissions(userId), then the find
GrantRead(p, userId, resource, resourceId, permissions, fieldArg) ==
  /\ calls[p].pc = "idle"
  /\ LET i == ExistingGrant(grants, userId, resource, resourceId) IN
     calls' = [calls EXCEPT ![p] =
       [pc |-> "read", user |-> userId, resource |-> resource, resourceId |-> resourceId,
        permissions |-> permissions, fieldArg |-> fieldArg,
        found |-> i # 0,
        existing |-> IF i # 0 THEN grants[i]
                     ELSE Grant(Null, userId, resource, resourceId, FALSE, NoKeys, FALSE, NoKeys),
        readAt |-> clock, wroteAt |-> 0]]
  /\ clock' = clock + 1
  /\ UNCHANGED <<workflow, submissions, okCalls, last, users, grants, lastCheck, lastGrant>>

\* await updatePermission(existing.id, ...) with what the call read
GrantWriteUpdate(p) ==
  /\ calls[p].pc = "read"
  /\ calls[p].found
  /\ LET c == calls[p] IN
     grants' = updatePermission(grants, c.existing.id,
                 SpreadMerge(c.existing.permissions, c.permissions),
                 IF c.fieldArg.present THEN TRUE ELSE c.existing.hasFieldPermissions,
                 IF c.fieldArg.present
                   THEN SpreadMerge(c.existing.fieldPermissions, c.fieldArg.fields)
                   ELSE c.existing.fieldPermissions)
  /\ calls' = [calls EXCEPT ![p].pc = "done", ![p].wroteAt = clock]
  /\ clock' = clock + 1
  /\ UNCHANGED <<workflow, submissions, okCalls, last, users, lastCheck, lastGrant>>

\* await createPermission({user, resource, resourceId, permissions, fieldPermissions})
GrantWriteCreate(p) ==
  /\ calls[p].pc = "read"
  /\ ~calls[p].found
  /\ LET c == calls[p] IN
     grants' = createPermission(grants,
                 Grant(NewId(p - 1), c.user, c.resource, c.resourceId, TRUE, c.permissions,
                       c.fieldArg.present, c.fieldArg.fields))
  /\ calls' = [calls EXCEPT ![p].pc = "done", ![p].wroteAt = clock]
  /\ clock' = clock + 1
  /\ UNCHANGED <<workflow, submissions, okCalls, last, users, lastCheck, lastGrant>>

NextGrantConc ==
  \/ \E p \in Granters, userId \in GrantUserIds, scope \in ConcGrantScopes,
        permissions \in AdminFlagArgs, fieldArg \in GrantFieldArgs :
       GrantRead(p, userId, scope[1], scope[2], permissions, fieldArg)
  \/ \E p \in Granters : GrantWriteUpdate(p)
  \/ \E p \in Granters : GrantWriteCreate(p)

SpecGrantConc == InitGrantConc /\ [][NextGrantConc]_vars

\* ------------------------------- definitions and submissions with owners
FormIds == {"f1", "f2"}
ApplicationIds == {"a1", "a2"}

\* the definition getWorkflowById returns, with its application/form pair
OwnedWorkflows == {wf @@ [formId |-> "f1", applicationId |-> "a1"] : wf \in {WfChain}}

\* submissions of any form of any application
OwnedSubmissions ==
  {s @@ [formId |-> f, applicationId |-> a] : s \in FreshSubmissions, f \in FormIds, a \in ApplicationIds}

InitOwner ==
  /\ workflow \in OwnedWorkflows
  /\ \E s \in OwnedSubmissions : submissions = [id \in {"sub1"} |-> s]
  /\ clock = 0
  /\ okCalls = 0
  /\ calls = << >>
  /\ last = NoCall
  /\ users = WorkflowUsers
  /\ grants = << >>
  /\ lastCheck = NoCheck
  /\ lastGrant = NoGrant

SpecOwner == InitOwner /\ [][Next]_vars

\* ===================================================== properties checked
IsPrefix(a, b) == Len(a) <= Len(b) /\ SubSeq(b, 1, Len(a)) = a

\* the stage a call starts from: the stored currentStage, or the first stage
\* of the definition when the loaded submission has none
StageIdOf(sub) ==
  IF sub.workflowState.currentStage # Null THEN sub.workflowState.currentStage
  ELSE IF Len(workflow.stages) > 0 THEN workflow.stages[1].id ELSE Null

\* the stage records of the definition with that id (none or one)
StagesOf(sub) ==
  {workflow.stages[i] : i \in {j \in 1..Len(workflow.stages) : workflow.stages[j].id = StageIdOf(sub)}}

\* positions of the transitions that leave stage `from` on `action`
\* (an unset action leaves on every action)
Leaving(from, action) ==
  {i \in 1..Len(workflow.transitions) :
     /\ workflow.transitions[i].from = from
     /\ workflow.transitions[i].action \in {action, Null}}

\* positions of the transitions from `from` whose action is exactly `action`
SameAction(from, action) ==
  {i \in 1..Len(workflow.transitions) :
     /\ workflow.transitions[i].from = from
     /\ workflow.transitions[i].action = action}

StoredHistory(sid) == submissions[sid].workflowState.history

\* C1: a call that succeeds returns and saves the loaded history plus exactly
\* one entry at the end, transition or not; the entry holds the stage current
\* before the transition, the action, the acting user and the comments.
C1_AppendsOneEntry ==
  last.outcome = "ok" =>
    LET h == last.loaded.workflowState.history
        e == last.ret.history[Len(last.ret.history)] IN
    /\ Len(last.ret.history) = Len(h) + 1
    /\ SubSeq(last.ret.history, 1, Len(h)) = h
    /\ e.stage = StageIdOf(last.loaded)
    /\ e.action = last.action
    /\ e.user = last.user
    /\ e.comments = last.comments
    /\ last.saveCalled
    /\ StoredHistory(last.sid) = last.ret.history

\* a successful call on a non-empty history for which no transition matched
C1_Witness ==
  /\ last.outcome = "ok"
  /\ Len(last.loaded.workflowState.history) >= 1
  /\ Leaving(StageIdOf(last.loaded), last.action) = {}
  /\ Len(StoredHistory(last.sid)) = Len(last.loaded.workflowState.history) + 1

C3_UsersListDecides ==
  \A st \in StagesOf(last.loaded) :
    (last.found /\ st.users # {} /\ toString(last.user) \notin st.users)
      => /\ last.outcome = "Forbidden"
         /\ ~last.saveCalled
         /\ submissions[last.sid] = last.loaded

\* a user whose role equals the stage's role, absent from the list, was refused
C3_Witness ==
  /\ last.outcome = "Forbidden"
  /\ \E st \in StagesOf(last.loaded) :
       /\ st.users # {}
       /\ toString(last.user) \notin st.users
       /\ last.action \in st.actions
       /\ users[last.user].role = st.role

\* C4: at a stage with an empty users list and a role, only a user with that
\* role may act; any other user is refused and nothing is appended or saved.
C4_RoleRequired ==
  \A st \in StagesOf(last.loaded) :
    (last.found /\ st.users = {} /\ st.role # Null /\ users[last.user].role # st.role)
      => /\ last.outcome = "Forbidden"
         /\ ~last.saveCalled
         /\ submissions[last.sid] = last.loaded

\* C5: an action that is not among the current stage's actions is refused for
\* every user; nothing is appended and updateFormSubmission is not called.
C5_ActionNotAllowed ==
  \A st \in StagesOf(last.loaded) :
    (last.found /\ last.action \notin st.actions)
      => /\ last.outcome = "Forbidden"
         /\ ~last.saveCalled
         /\ last.memory = last.loaded.workflowState
         /\ submissions[last.sid] = last.loaded

\* a listed user was refused an action the stage does not allow, after the
\* submission had already moved
C5_Witness ==
  /\ last.outcome = "Forbidden"
  /\ Len(StoredHistory(last.sid)) >= 1
  /\ \E st \in StagesOf(last.loaded) :
       /\ last.action \notin st.actions
       /\ toString(last.user) \in st.users

\* C6 as stated: when two transitions share from and action, an authorized
\* call with that action at that stage moves to the `to` of the first of them.
C6_FirstOfTheTwo ==
  LET from == StageIdOf(last.loaded)
      same == SameAction(from, last.action) IN
  (last.outcome = "ok" /\ Cardinality(same) >= 2)
    => submissions[last.sid].workflowState.currentStage = workflow.transitions[Min(same)].to

\* C6 amended: ... provided no transition from that stage with an unset
\* action appears before the first of them.
C6_FirstMatchWins ==
  LET from == StageIdOf(last.loaded)
      same == SameAction(from, last.action) IN
  (/\ last.outcome = "ok"
   /\ Cardinality(same) >= 2
   /\ \A i \in SameAction(from, Null) : i > Min(same))
    => /\ submissions[last.sid].workflowState.currentStage = workflow.transitions[Min(same)].to
       /\ last.ret.currentStage = workflow.transitions[Min(same)].to

\* the first of two same-action transitions with different targets was taken
C6_Witness ==
  LET from == StageIdOf(last.loaded)
      same == SameAction(from, last.action) IN
  /\ last.outcome = "ok"
  /\ Cardinality(same) >= 2
  /\ \E j \in same : workflow.transitions[j].to # workflow.transitions[Min(same)].to
  /\ submissions[last.sid].workflowState.currentStage = workflow.transitions[Min(same)].to

\* C7: after an authorized approve the status is in_review and currentStage
\* is the transition's `to` if a transition from the current stage matched;
\* it is approved and the current stage is unchanged if none matched.
C7_ApproveStatus ==
  (last.outcome = "ok" /\ last.action = "approve") =>
    LET from == StageIdOf(last.loaded)
        m == Leaving(from, "approve")
        saved == submissions[last.sid] IN
    IF m # {}
      THEN /\ saved.status = "in_review" /\ last.ret.status = "in_review"
           /\ saved.workflowState.currentStage = workflow.transitions[Min(m)].to
           /\ last.ret.currentStage = workflow.transitions[Min(m)].to
      ELSE /\ saved.status = "approved" /\ last.ret.status = "approved"
           /\ StageIdOf(saved) = from

\* an approve that advanced was followed by an approve at the end of the chain
C7_Witness ==
  /\ last.outcome = "ok" /\ last.action = "approve"
  /\ Leaving(StageIdOf(last.loaded), "approve") = {}
  /\ last.loaded.status = "in_review"
  /\ submissions[last.sid].status = "approved"

\* C8: a request that saves stores the history it loaded plus its own entry,
\* whatever the store holds by then, and returns normally: of two requests
\* that loaded the same history and both succeed, the store keeps one entry.
C8_SaveOverwrites ==
  [][\A p \in DOMAIN calls :
       (calls[p].pc = "loaded" /\ calls'[p].pc = "done" /\ last'.outcome = "ok")
         => LET loadedHistory == calls[p].loaded.workflowState.history
                stored == submissions'[calls[p].sid].workflowState.history IN
            /\ Len(stored) = Len(loadedHistory) + 1
            /\ IsPrefix(loadedHistory, stored)
            /\ last'.ret.history = stored]_vars

\* two requests returned normally and the stored history holds one entry
C8_Witness ==
  /\ okCalls = 2
  /\ clock = 2
  /\ Len(StoredHistory("sub1")) = 1

\* C9: also under overlapping calls, the stored history never gets shorter
\* and never loses or reorders an entry it held.
C9_HistoryNeverLoses ==
  [][\A sid \in DOMAIN submissions : IsPrefix(StoredHistory(sid), StoredHistory(sid)')]_vars

C12_AnyGlobalEntryAllows ==
  (/\ lastCheck.op = "checkPermission"
   /\ lastCheck.user \in DOMAIN users
   /\ users[lastCheck.user].role # "super_admin"
   /\ lastCheck.out.threw = "none"
   /\ \E i \in 1..Len(users[lastCheck.user].permissions) :
        /\ users[lastCheck.user].permissions[i].resource \in {lastCheck.resource, "*"}
        /\ lastCheck.action \in users[lastCheck.user].permissions[i].actions)
    => lastCheck.out.value = "true"

\* the rows of store gs held for the triple (userId, resource, resourceId)
RowsFor(gs, userId, resource, resourceId) ==
  {i \in 1..Len(gs) :
     gs[i].user = userId /\ gs[i].resource = resource /\ gs[i].resourceId = resourceId}

\* this step is a grantPermission / revokePermission call
IsGrantStep == lastGrant'.seq = lastGrant.seq + 1 /\ lastGrant'.op = "grant"
IsRevokeStep == lastGrant'.seq = lastGrant.seq + 1 /\ lastGrant'.op = "revoke"

C15_RevokeFrame ==
  [][IsRevokeStep =>
       LET old == grants
           named == lastGrant'.actions IN
       \A i \in RowsFor(old, lastGrant'.user, lastGrant'.resource, lastGrant'.resourceId) :
         /\ Len(grants') = Len(old)
         /\ \A j \in 1..Len(old) : j # i => grants'[j] = old[j]
         /\ grants'[i].id = old[i].id
         /\ grants'[i].user = old[i].user
         /\ grants'[i].resource = old[i].resource
         /\ grants'[i].resourceId = old[i].resourceId
         /\ grants'[i].hasFieldPermissions = old[i].hasFieldPermissions
         /\ grants'[i].fieldPermissions = old[i].fieldPermissions
         /\ \A k \in named : k \in DOMAIN grants'[i].permissions /\ grants'[i].permissions[k] = FALSE
         /\ DOMAIN grants'[i].permissions = DOMAIN old[i].permissions \cup named
         /\ \A k \in DOMAIN old[i].permissions \ named :
              grants'[i].permissions[k] = old[i].permissions[k]]_vars

\* read has just been revoked on a grant that keeps update true and its
\* fieldPermissions, next to another row
C15_Witness ==
  /\ lastGrant.op = "revoke"
  /\ lastGrant.actions = {"read"}
  /\ lastGrant.found # 0
  /\ Len(grants) = 2
  /\ \E i \in RowsFor(grants, lastGrant.user, lastGrant.resource, lastGrant.resourceId) :
       /\ grants[i].permissions = [a \in {"read", "update"} |-> a = "update"]
       /\ grants[i].hasFieldPermissions
       /\ grants[i].fieldPermissions # NoKeys

\* C16: executeWorkflowAction appends to the history and saves only in a call
\* in which the permission evaluator (checkPermission / checkFieldPermission)
\* was consulted for the acting user.
C16_EvaluatorConsulted ==
  last.saveCalled =>
    (lastCheck.op \in {"checkPermission", "checkFieldPermission"} /\ lastCheck.user = last.user)

\* C17: a transition from the current stage whose action is unset matches
\* every requested action, and the first transition in definition order
\* among it and those naming the action gives the stage reached: an
\* unset-action transition ahead of one naming the action wins.
C17_WildcardByOrder ==
  LET from == StageIdOf(last.loaded)
      wild == SameAction(from, Null)
      same == SameAction(from, last.action) IN
  (last.outcome = "ok" /\ wild # {})
    => LET first == Min(wild \cup same) IN
       /\ submissions[last.sid].workflowState.currentStage = workflow.transitions[first].to
       /\ last.ret.currentStage = workflow.transitions[first].to

\* an unset-action transition stood ahead of one naming the requested action
\* with another target, and its target was reached
C17_Witness ==
  LET from == StageIdOf(last.loaded)
      wild == SameAction(from, Null)
      same == SameAction(from, last.action) IN
  /\ last.outcome = "ok"
  /\ wild # {} /\ same # {}
  /\ Min(wild) < Min(same)
  /\ workflow.transitions[Min(wild)].to # workflow.transitions[Min(same)].to
  /\ submissions[last.sid].workflowState.currentStage = workflow.transitions[Min(wild)].to

\* C18: after an authorized reject the status is rejected and after an
\* authorized submit it is submitted, with or without a matching
\* transition; a matching transition still moves currentStage to its `to`.
C18_RejectSubmitStatus ==
  (last.outcome = "ok" /\ last.action \in {"reject", "submit"}) =>
    LET from == StageIdOf(last.loaded)
        m == Leaving(from, last.action)
        saved == submissions[last.sid]
        status == IF last.action = "reject" THEN "rejected" ELSE "submitted" IN
    /\ saved.status = status /\ last.ret.status = status
    /\ IF m # {}
         THEN /\ saved.workflowState.currentStage = workflow.transitions[Min(m)].to
              /\ last.ret.currentStage = workflow.transitions[Min(m)].to
         ELSE StageIdOf(saved) = from

\* a reject with a matching transition moved the stage and set rejected
C18_Witness ==
  LET from == StageIdOf(last.loaded)
      m == Leaving(from, "reject") IN
  /\ last.outcome = "ok" /\ last.action = "reject"
  /\ m # {}
  /\ workflow.transitions[Min(m)].to # from
  /\ submissions[last.sid].workflowState.currentStage = workflow.transitions[Min(m)].to
  /\ last.loaded.status # "rejected"
  /\ submissions[last.sid].status = "rejected"

\* C19: an authorized call whose action is none of approve, reject, submit
\* keeps the status it loaded, appends one history entry, and moves
\* currentStage exactly when a transition matched.
C19_OtherActionKeepsStatus ==
  (last.outcome = "ok" /\ last.action \notin {"approve", "reject", "submit"}) =>
    LET from == StageIdOf(last.loaded)
        m == Leaving(from, last.action)
        saved == submissions[last.sid] IN
    /\ saved.status = last.loaded.status /\ last.ret.status = last.loaded.status
    /\ Len(saved.workflowState.history) = Len(last.loaded.workflowState.history) + 1
    /\ saved.workflowState.history[Len(saved.workflowState.history)].action = last.action
    /\ IF m # {}
         THEN /\ saved.workflowState.currentStage = workflow.transitions[Min(m)].to
              /\ last.ret.currentStage = workflow.transitions[Min(m)].to
         ELSE StageIdOf(saved) = from

\* a comment on a submitted submission moved the stage by an unset-action
\* transition, added the first history entry and kept the status submitted
C19_Witness ==
  LET from == StageIdOf(last.loaded)
      m == Leaving(from, "comment") IN
  /\ last.outcome = "ok" /\ last.action = "comment"
  /\ m # {}
  /\ workflow.transitions[Min(m)].to # from
  /\ submissions[last.sid].workflowState.currentStage = workflow.transitions[Min(m)].to
  /\ last.loaded.status = "submitted"
  /\ submissions[last.sid].status = "submitted"
  /\ Len(submissions[last.sid].workflowState.history) = 1

\* C20: at a stage with an empty users list and no role, a call whose action
\* is one of the stage's actions is never refused, whoever the user is.
C20_UnrestrictedStage ==
  (/\ last.outcome # "none"
   /\ last.found
   /\ \E st \in StagesOf(last.loaded) :
        st.users = {} /\ st.role = Null /\ last.action \in st.actions)
    => last.outcome \in {"ok", "SaveFailed"}

\* two different users acted in turn at one stage without users and role
C20_Witness ==
  /\ last.outcome = "ok"
  /\ \E st \in StagesOf(last.loaded) :
       st.users = {} /\ st.role = Null /\ last.action \in st.actions
  /\ LET h == last.loaded.workflowState.history IN
     /\ Len(h) > 0
     /\ h[Len(h)].stage = StageIdOf(last.loaded)
     /\ h[Len(h)].user # last.user

\* C21: a call that loads a submission without currentStage (no workflowState,
\* or a workflowState whose currentStage is unset) and succeeds used the
\* definition's first stage id in its history entry, and when no transition
\* matched it returns and saves that first stage id as currentStage.
C21_FirstStageDefault ==
  (/\ last.outcome = "ok"
   /\ last.loaded.workflowState.currentStage = Null)
    => LET first == workflow.stages[1].id
           saved == submissions[last.sid].workflowState IN
       /\ saved.history[Len(saved.history)].stage = first
       /\ Leaving(first, last.action) = {}
            => (saved.currentStage = first /\ last.ret.currentStage = first)

\* the last check was made for a stored user who is not super_admin and has
\* no embedded entry for the resource or '*', and nothing raised
NoGlobalEntryFor(userId, resource) ==
  /\ userId \in DOMAIN users
  /\ users[userId].role # "super_admin"
  /\ \A i \in 1..Len(users[userId].permissions) :
       users[userId].permissions[i].resource \notin {resource, "*"}

\* the stored rows with the id the last check's findOne returned
RowReturned(out) == {i \in 1..Len(grants) : grants[i].id = out.row}

\* permissions[action] of a row is the boolean true
FlagTrue(row, action) ==
  row.hasPermissions /\ action \in DOMAIN row.permissions /\ row.permissions[action]

\* C22: for a stored non-super_admin user without a matching embedded entry,
\* checkPermission returns true when the grant found has permissions[action]
\* true, and returns false when no grant is found, when the grant has no
\* permissions object, and when the flag is missing or false.
C22_StrictFlag ==
  (/\ lastCheck.op = "checkPermission"
   /\ NoGlobalEntryFor(lastCheck.user, lastCheck.resource)
   /\ lastCheck.out.threw = "none")
    => IF \E i \in RowReturned(lastCheck.out) : FlagTrue(grants[i], lastCheck.action)
         THEN lastCheck.out.value = "true"
         ELSE lastCheck.out.value = "false"

\* the last call was checkFieldPermission for a stored user who is not
\* super_admin, and neither getUserById nor its findOne raised
FieldCheckMade ==
  /\ lastCheck.op = "checkFieldPermission"
  /\ lastCheck.user \in DOMAIN users
  /\ users[lastCheck.user].role # "super_admin"
  /\ lastCheck.out.threw = "none"

\* the rows stored for the triple of the last check
CheckedRows == RowsFor(grants, lastCheck.user, lastCheck.resource, lastCheck.resourceId)

C26_RevokeAbsent ==
  [][(/\ IsRevokeStep
      /\ RowsFor(grants, lastGrant'.user, lastGrant'.resource, lastGrant'.resourceId) = {})
       => (grants' = grants /\ lastGrant'.result = "false")]_vars

\* a revoke found no row for its triple next to a row of the same user and
\* resource under another resourceId
C26_Witness ==
  /\ lastGrant.op = "revoke"
  /\ lastGrant.result = "false"
  /\ RowsFor(grants, lastGrant.user, lastGrant.resource, lastGrant.resourceId) = {}
  /\ \E i \in 1..Len(grants) :
       /\ grants[i].user = lastGrant.user
       /\ grants[i].resource = lastGrant.resource
       /\ grants[i].resourceId # lastGrant.resourceId

\* C27: a call for a submissionId the store does not hold fails with
\* NotFound without calling updateFormSubmission, and the store is as before:
\* no record is created or changed.
C27_NotFound ==
  [][(last' # last /\ last'.sid \notin DOMAIN submissions)
       => /\ last'.outcome = "NotFound"
          /\ ~last'.saveCalled
          /\ submissions' = submissions]_vars

\* after a call had saved, a call for an id that is not stored failed
C27_Witness ==
  /\ last.outcome = "NotFound"
  /\ ~last.saveCalled
  /\ last.sid \notin DOMAIN submissions
  /\ okCalls > 0

\* C28: a call that resolves a current stage which is no stage of the
\* definition (a definition without stages included) fails with InvalidState
\* whatever the action and the user, appends nothing, does not call
\* updateFormSubmission, and the stored record stays as loaded.
C28_InvalidState ==
  (/\ last.outcome # "none"
   /\ last.found
   /\ StagesOf(last.loaded) = {})
    => /\ last.outcome = "InvalidState"
       /\ ~last.saveCalled
       /\ last.memory = last.loaded.workflowState
       /\ submissions[last.sid] = last.loaded

\* an earlier call stored a currentStage that is no stage of the definition,
\* and the next call failed on it
C28_Witness ==
  /\ last.outcome = "InvalidState"
  /\ last.loaded.workflowState.currentStage # Null
  /\ Len(last.loaded.workflowState.history) > 0
  /\ submissions[last.sid].workflowState.currentStage = last.loaded.workflowState.currentStage

\* C29: a call on a submission whose status is approved or rejected is not
\* refused for that: when checkWorkflowPermission allows it, it succeeds (or
\* ends in the save's error), appends one history entry, and sets status and
\* stage as for any other status.
C29_TerminalNotBlocked ==
  (/\ last.outcome # "none"
   /\ last.found
   /\ last.loaded.status \in {"approved", "rejected"}
   /\ \E st \in StagesOf(last.loaded) : checkWorkflowPermission(st, last.user, last.action))
    => /\ last.outcome \in {"ok", "SaveFailed"}
       /\ Len(last.memory.history) = Len(last.loaded.workflowState.history) + 1
       /\ last.outcome = "ok" =>
            /\ submissions[last.sid].workflowState = last.memory
            /\ last.action = "reject" => submissions[last.sid].status = "rejected"
            /\ Leaving(StageIdOf(last.loaded), last.action) # {}
                 => StageIdOf(submissions[last.sid]) =
                      workflow.transitions[Min(Leaving(StageIdOf(last.loaded), last.action))].to

\* an approved submission was rejected and moved to another stage
C29_Witness ==
  /\ last.outcome = "ok"
  /\ last.loaded.status = "approved"
  /\ submissions[last.sid].status = "rejected"
  /\ StageIdOf(submissions[last.sid]) # StageIdOf(last.loaded)
  /\ Len(submissions[last.sid].workflowState.history) =
       Len(last.loaded.workflowState.history) + 1

WithoutConditions(wf) ==
  [wf EXCEPT !.transitions = [i \in 1..Len(wf.transitions) |-> [wf.transitions[i] EXCEPT !.condition = Null]]]

\* C31: a call ends as it would under the definition with every
\* transition's condition removed: same failure or success, same stage held
\* afterwards, same status.
C31_ConditionIgnored ==
  (last.outcome # "none" /\ last.found) =>
    LET r == Execute(WithoutConditions(workflow), last.loaded, last.action, last.user, 0, last.comments) IN
    /\ r.outcome = (IF last.outcome = "SaveFailed" THEN "ok" ELSE last.outcome)
    /\ r.workflowState.currentStage = last.memory.currentStage
    /\ last.outcome = "ok" =>
         /\ r.status = last.ret.status
         /\ r.status = submissions[last.sid].status
         /\ r.workflowState.currentStage = submissions[last.sid].workflowState.currentStage

\* the transition taken carried a condition
C31_Witness ==
  LET m == Leaving(StageIdOf(last.loaded), last.action) IN
  /\ last.outcome = "ok"
  /\ m # {}
  /\ workflow.transitions[Min(m)].condition # Null
  /\ workflow.transitions[Min(m)].to # StageIdOf(last.loaded)
  /\ submissions[last.sid].workflowState.currentStage = workflow.transitions[Min(m)].to

\* the stages form a chain: one transition leaves each stage but the last on
\* approve, to the stage after it, none leaves the last, and every stage
\* allows approve
IsApproveChain(wf) ==
  LET n == Len(wf.stages)
      out(i) == {t \in 1..Len(wf.transitions) :
                   wf.transitions[t].from = wf.stages[i].id
                     /\ wf.transitions[t].action \in {"approve", Null}} IN
  /\ n >= 1
  /\ \A i, j \in 1..n : wf.stages[i].id = wf.stages[j].id => i = j
  /\ \A i \in 1..n : "approve" \in wf.stages[i].actions
  /\ \A i \in 1..(n - 1) :
       Cardinality(out(i)) = 1 /\ \A t \in out(i) : wf.transitions[t].to = wf.stages[i + 1].id
  /\ out(n) = {}

\* every entry of the history is an approve
OnlyApproves(h) == \A i \in 1..Len(h) : h[i].action = "approve"

\* C32: on a chain of n stages, a submission whose history is k approves and
\* nothing else (k <= n) stands at stage k+1 with status in_review while
\* k < n, and at stage n with status approved when k = n; an authorized
\* approve on such a submission with k < n is not refused.
C32_ChainOfApproves ==
  IsApproveChain(workflow) =>
    LET n == Len(workflow.stages) IN
    /\ \A sid \in DOMAIN submissions :
         LET sub == submissions[sid]
             k == Len(sub.workflowState.history) IN
         (OnlyApproves(sub.workflowState.history) /\ k >= 1 /\ k <= n) =>
           IF k < n
             THEN sub.workflowState.currentStage = workflow.stages[k + 1].id /\ sub.status = "in_review"
             ELSE StageIdOf(sub) = workflow.stages[n].id /\ sub.status = "approved"
    /\ (/\ last.outcome # "none" /\ last.found /\ last.action = "approve"
        /\ OnlyApproves(last.loaded.workflowState.history)
        /\ Len(last.loaded.workflowState.history) < n
        /\ \E st \in StagesOf(last.loaded) : checkWorkflowPermission(st, last.user, "approve"))
         => last.outcome \in {"ok", "SaveFailed"}

\* three approves took a fresh submission through a chain of three stages
C32_Witness ==
  /\ IsApproveChain(workflow)
  /\ Len(workflow.stages) = 3
  /\ last.outcome = "ok" /\ last.action = "approve"
  /\ OnlyApproves(submissions[last.sid].workflowState.history)
  /\ Len(submissions[last.sid].workflowState.history) = 3
  /\ last.loaded.status = "in_review"
  /\ submissions[last.sid].status = "approved"
  /\ submissions[last.sid].workflowState.currentStage = workflow.stages[3].id

\* C33: for a stored non-super_admin user with no matching embedded entry,
\* checkPermission(user, resource, action, r) returns true only if a grant
\* stored for exactly (user, resource, r), r absent included, has the
\* action's flag true.
C33_ExactScope ==
  (/\ lastCheck.op = "checkPermission"
   /\ NoGlobalEntryFor(lastCheck.user, lastCheck.resource)
   /\ lastCheck.out.value = "true")
    => \E i \in CheckedRows : FlagTrue(grants[i], lastCheck.action)

\* the last check was made after the last grant or revocation, for its
\* user, resource and resourceId
CheckFollowsGrant ==
  /\ lastCheck.op # "none"
  /\ lastGrant.op # "none"
  /\ lastCheck.user = lastGrant.user
  /\ lastCheck.resource = lastGrant.resource
  /\ lastCheck.resourceId = lastGrant.resourceId
  /\ NoGlobalEntryFor(lastCheck.user, lastCheck.resource)

\* C34: after revokePermission(user, resource, r, [a]) on an existing grant,
\* checkFieldPermission(user, resource, r, f, a) returns false for every
\* field f for a non-super_admin user without an embedded entry.
C34_RevokeDeniesFields ==
  (/\ CheckFollowsGrant
   /\ lastCheck.op = "checkFieldPermission"
   /\ lastGrant.op = "revoke"
   /\ lastGrant.result = "updated"
   /\ lastCheck.action \in lastGrant.actions)
    => lastCheck.out.value = "false"

\* C37: for a non-super_admin user without an embedded entry,
\* checkPermission(user, resource, a, r) returns true after
\* grantPermission(user, resource, r, {a: true}) and false after a
\* revokePermission(user, resource, r, [a]) on the grant.
C37_GrantRevokeRoundTrip ==
  (CheckFollowsGrant /\ lastCheck.op = "checkPermission") =>
    /\ (/\ lastGrant.op = "grant"
        /\ lastCheck.action \in DOMAIN lastGrant.permissions
        /\ lastGrant.permissions[lastCheck.action])
         => lastCheck.out.value = "true"
    /\ (/\ lastGrant.op = "revoke"
        /\ lastGrant.result = "updated"
        /\ lastCheck.action \in lastGrant.actions)
         => lastCheck.out.value = "false"

\* C38: a grantPermission call for a triple that has a grant merges
\* fieldPermissions by field name: a field the call names gets the call's
\* entry whole, a field it does not name keeps its entry, and a call without
\* fieldPermissions leaves the grant's fieldPermissions as they were.
C38_FieldMergeByName ==
  [][IsGrantStep =>
       LET old == grants
           arg == lastGrant'.fieldArg IN
       \A i \in RowsFor(old, lastGrant'.user, lastGrant'.resource, lastGrant'.resourceId) :
         IF arg.present
           THEN /\ grants'[i].hasFieldPermissions
                /\ DOMAIN grants'[i].fieldPermissions =
                     DOMAIN old[i].fieldPermissions \cup DOMAIN arg.fields
                /\ \A f \in DOMAIN arg.fields : grants'[i].fieldPermissions[f] = arg.fields[f]
                /\ \A f \in DOMAIN old[i].fieldPermissions \ DOMAIN arg.fields :
                     grants'[i].fieldPermissions[f] = old[i].fieldPermissions[f]
           ELSE /\ grants'[i].hasFieldPermissions = old[i].hasFieldPermissions
                /\ grants'[i].fieldPermissions = old[i].fieldPermissions]_vars

\* a grant naming the field salary replaced the stored entry of salary, which
\* held a flag the call's entry lacks: that flag is gone
C38_Witness ==
  /\ lastGrant.op = "grant"
  /\ lastGrant.seq = 1
  /\ lastGrant.result = "updated"
  /\ lastGrant.fieldArg.present
  /\ \E i \in RowsFor(grants, lastGrant.user, lastGrant.resource, lastGrant.resourceId) :
       /\ grants[i].id = "g2"
       /\ grants[i].fieldPermissions = lastGrant.fieldArg.fields
       /\ "read" \notin DOMAIN grants[i].fieldPermissions["salary"]

\* calls p and q were made for the same triple and each read the user's
\* grants before the other wrote
Overlapped(p, q) ==
  /\ p # q
  /\ calls[p].pc = "done" /\ calls[q].pc = "done"
  /\ calls[p].user = calls[q].user
  /\ calls[p].resource = calls[q].resource
  /\ calls[p].resourceId = calls[q].resourceId
  /\ calls[p].readAt < calls[q].wroteAt
  /\ calls[q].readAt < calls[p].wroteAt

\* C35: when two grantPermission calls for one triple overlap and no other
\* call is in flight, the store ends with exactly one grant for the triple,
\* holding the permission flags of both calls.
C35_OverlapMerges ==
  \A p, q \in Granters :
    (Overlapped(p, q) /\ \A o \in Granters \ {p, q} : calls[o].pc = "idle") =>
      LET rows == RowsFor(grants, calls[p].user, calls[p].resource, calls[p].resourceId) IN
      /\ Cardinality(rows) = 1
      /\ \A i \in rows :
           /\ \A k \in DOMAIN calls[p].permissions : FlagTrue(grants[i], k)
           /\ \A k \in DOMAIN calls[q].permissions : FlagTrue(grants[i], k)

\* every transition of the definition leads to one of its stages
TargetsAreStages(wf) ==
  \A t \in 1..Len(wf.transitions) :
    \E i \in 1..Len(wf.stages) : wf.stages[i].id = wf.transitions[t].to

\* C36: under a definition whose transitions all lead to stages of the
\* definition, a stored currentStage that is set is the id of a stage, and
\* InvalidState does not occur on a submission that has had a successful call.
C36_StageStaysValid ==
  TargetsAreStages(workflow) =>
    /\ \A sid \in DOMAIN submissions :
         submissions[sid].workflowState.currentStage # Null
           => \E i \in 1..Len(workflow.stages) :
                workflow.stages[i].id = submissions[sid].workflowState.currentStage
    /\ last.outcome = "InvalidState" => Len(last.loaded.workflowState.history) = 0

\* two transitions were taken and the third call found its stage
C36_Witness ==
  /\ TargetsAreStages(workflow)
  /\ last.outcome = "ok"
  /\ Len(last.loaded.workflowState.history) = 2
  /\ last.loaded.workflowState.currentStage # Null
  /\ last.loaded.workflowState.currentStage # workflow.stages[1].id
  /\ submissions[last.sid].workflowState.currentStage # last.loaded.workflowState.currentStage

\* C39: a call that pushes and saves was made on a submission whose formId
\* and applicationId are those of the workflow definition.
C39_OwnedSubmissionOnly ==
  last.saveCalled =>
    /\ last.loaded.formId = workflow.formId
    /\ last.loaded.applicationId = workflow.applicationId

====
